---- MODULE Spec2Model ----
(***************************************************************************)
(* Credential and access-control core of devnorth-back: the sliding-window *)
(* request limiter, the JWT generator, the bcrypt password hasher, the     *)
(* Register and Login use cases that compose them, and the shutdown of the *)
(* process.                                                                *)
(***************************************************************************)
EXTENDS Integers, Sequences, FiniteSets, TLC

(***************************************************************************)
(* Bounds of the model.                                                    *)
(***************************************************************************)
\* last instant of the limiter's clock
MaxTime == 2
\* number of Allow calls in one behaviour
MaxCalls == 3
\* number of AddLimit calls in one behaviour
MaxAddLimits == 2

\* goroutines calling the limiter
Procs == {1, 2}
IPs == {"ip1", "ip2"}
Paths == {"login", "register"}
NoProc == 0
NoLimit == [MaxRequests |-> -1, Window |-> -1]

VARIABLES
    clock,          \* time.Now()
    limits,         \* Limiter.limits : path -> RateLimit
    store,          \* Limiter.store  : ip -> path -> []time.Time
    mu,             \* Limiter.mu     : the goroutine holding the mutex, or NoProc
    pc,             \* position of each goroutine inside Allow
    arg,            \* (ip, path) of each goroutine's pending Allow
    rateLimit,      \* local rateLimit of each goroutine's Allow
    validRequests,  \* local validRequests of each goroutine's Allow
    tFilter,        \* the instant time.Now() returned inside filterValidRequests
    lastAllow,      \* the Allow call that returned last, with its result
    admitted,       \* history variable: times of the admissions made under a policy, per key
    policyChanged,  \* history variable: paths whose policy was replaced by a different one
    nCalls,         \* number of Allow calls made
    nAddLimits,     \* number of AddLimit calls made
    lastAdded,      \* history variable: the map of the AddLimit call that returned last
    gen,            \* the jwtGenerator NewJWTGenerator returned, or NoGen
    newErr,         \* the error NewJWTGenerator returned
    newArg,         \* history variable: the arguments of the last NewJWTGenerator call
    held,           \* the token the client holds: the last one Generate signed
    genRes,         \* what the last Generate returned
    valRes,         \* what the last Validate returned, and whether its token was an issued one
    expiredSeen,    \* history variable: the service has rejected the held token as expired
    hasher,         \* the bcryptHasher NewBcryptHasher returned, or NoHasher
    hashRes,        \* what the last Hash returned, with its argument
    cmpRes,         \* what the last Compare returned, with its arguments
    repo,           \* the users table behind domain.UserRepository, by email
    regRes,         \* what the last Register returned
    loginRes,       \* what the last Login returned, and the calls it made
    loginArg,       \* history variable: the arguments of the last Login call
    observed,       \* history variable: what callers of Login have observed, by case
    reg,            \* the Register call of each goroutine: position, arguments, result
    mainPc,         \* position of main between the select and the end of App.Close
    server,         \* the http.Server: starting, listening, draining, closed or failed
    pool,           \* the pgxpool.Pool: open, closing or closed
    handlers        \* the request handlers of the server, each with its position

\* the limiter's fields and the history variables
sharedVars == <<limits, store, lastAllow, admitted, policyChanged, nCalls, nAddLimits>>
\* the mutex and the goroutines' positions and locals
procVars == <<mu, pc, arg, rateLimit, validRequests, tFilter>>
limiterVars == <<sharedVars, procVars, lastAdded>>

tokenVars == <<gen, newErr, newArg, held, genRes, valRes, expiredSeen>>

hasherVars == <<hasher, hashRes, cmpRes>>
loginVars == <<repo, regRes, loginRes, loginArg, observed>>

\* the goroutines of concurrent Register calls
registerVars == <<reg>>
\* the process: main, the HTTP server and the database pool
appVars == <<mainPc, server, pool, handlers>>
extVars == <<registerVars, appVars>>

vars == <<clock, limiterVars, tokenVars, hasherVars, loginVars, extVars>>

(***************************************************************************)
(* ratelimit.Limiter                                                       *)
(***************************************************************************)
\* RateLimit values a caller configures (Window in clock ticks)
RateLimit == {[MaxRequests |-> 1, Window |-> 1], [MaxRequests |-> 2, Window |-> 2]}

\* maps passed to AddLimit
LimitLists ==
    { [p \in {} |-> NoLimit] } \cup
    { [p \in S |-> r] : S \in (SUBSET Paths) \ {{}}, r \in RateLimit }

\* no AddLimit call has returned yet
NoLimitList == [none |-> TRUE]

NoArg == [ip |-> "", path |-> ""]
NoCall == [ip |-> "", path |-> "", ok |-> FALSE, limited |-> FALSE, t |-> -1]

\* l.store[ip][path]; a missing entry reads as the nil slice
History(ip, path) ==
    IF ip \in DOMAIN store /\ path \in DOMAIN store[ip] THEN store[ip][path] ELSE <<>>

\* a store keyed by ip alone: every path of the ip gets the history
StoreSetAllPaths(ip, path, h) ==
    [i \in DOMAIN store \cup {ip} |->
        IF i = ip THEN [q \in Paths |-> h] ELSE store[i]]

\* l.store[ip][path] = h, after l.store[ip] was made if it was nil
StoreSet(ip, path, h) ==
    LET inner == IF ip \in DOMAIN store THEN store[ip] ELSE [q \in {} |-> <<>>]
        inner2 == [q \in DOMAIN inner \cup {path} |-> IF q = path THEN h ELSE inner[q]]
    IN [i \in DOMAIN store \cup {ip} |-> IF i = ip THEN inner2 ELSE store[i]]

\* a cutoff taken one tick too late
AfterLate(timestamp, cutoff) == timestamp > cutoff + 1

\* timestamp.After(cutoff)
After(timestamp, cutoff) == timestamp > cutoff

RECURSIVE FilterLoop(_, _)
FilterLoop(requests, cutoff) ==
    IF requests = <<>> THEN <<>>
    ELSE IF After(Head(requests), cutoff)
         THEN <<Head(requests)>> \o FilterLoop(Tail(requests), cutoff)
         ELSE FilterLoop(Tail(requests), cutoff)

\* a filter that keeps every request
filterNothing(requests, window, now) == requests

\* Limiter.filterValidRequests, with now the value time.Now() returns
filterValidRequests(requests, window, now) ==
    IF Len(requests) = 0 THEN <<>>
    ELSE FilterLoop(requests, now - window)

\* a mutex that never blocks
TryLockNoWait(p) == TRUE

\* l.mu.Lock() returns only when no goroutine holds the mutex
TryLock(p) == mu = NoProc

\* a comparison that lets one request too many through
OverLimitByOne(n, max) == n > max

\* len(validRequests) >= rateLimit.MaxRequests
OverLimit(n, max) == n >= max

\* a limiter that refuses the paths it has no policy for
NoPolicyResultClosed == FALSE

\* if !exists { return true }
NoPolicyResult == TRUE

\* a history that records the rejected call as well
RecordedAlways(valid, ok, now) == Append(valid, now)

\* l.store[ip][path] when Allow returns: validRequests, with time.Now()
\* appended when the request is allowed
Recorded(valid, ok, now) == IF ok THEN Append(valid, now) ELSE valid

\* an assignment of the new table in place of a merge
MapsReplace(dst, src) == src

\* maps.Copy(l.limits, limitList)
MapsCopy(dst, src) ==
    [p \in DOMAIN dst \cup DOMAIN src |-> IF p \in DOMAIN src THEN src[p] ELSE dst[p]]

InitLimiter ==
    /\ limits = [p \in {} |-> NoLimit]
    /\ store = [i \in {} |-> <<>>]
    /\ mu = NoProc
    /\ pc = [p \in Procs |-> "idle"]
    /\ arg = [p \in Procs |-> NoArg]
    /\ rateLimit = [p \in Procs |-> NoLimit]
    /\ validRequests = [p \in Procs |-> <<>>]
    /\ tFilter = [p \in Procs |-> -1]
    /\ lastAllow = NoCall
    /\ admitted = [k \in IPs \X Paths |-> <<>>]
    /\ policyChanged = {}
    /\ nCalls = 0
    /\ nAddLimits = 0
    /\ lastAdded = NoLimitList

\* Limiter.Allow as one critical section: the mutex is held from the first
\* statement to the return, so the body runs without interleaving.  The two
\* time.Now() calls read the clock at now and at now + d.
Allow(ip, path, d) ==
    /\ nCalls < MaxCalls
    /\ clock + d <= MaxTime
    /\ TryLock(NoProc)
    /\ nCalls' = nCalls + 1
    /\ clock' = clock + d
    /\ IF path \notin DOMAIN limits
       THEN /\ lastAllow' = [ip |-> ip, path |-> path, ok |-> NoPolicyResult,
                             limited |-> FALSE, t |-> clock]
            /\ UNCHANGED <<store, admitted>>
       ELSE LET limit == limits[path]
                valid == filterValidRequests(History(ip, path), limit.Window, clock)
                ok == ~OverLimit(Len(valid), limit.MaxRequests)
            IN /\ store' = StoreSet(ip, path, Recorded(valid, ok, clock + d))
               /\ admitted' = IF ok
                              THEN [admitted EXCEPT ![<<ip, path>>] = Append(@, clock + d)]
                              ELSE admitted
               /\ lastAllow' = [ip |-> ip, path |-> path, ok |-> ok,
                                limited |-> TRUE, t |-> clock]
    /\ UNCHANGED <<limits, policyChanged, nAddLimits, procVars>>
    /\ UNCHANGED <<lastAdded, tokenVars, hasherVars, loginVars, extVars>>

\* a goroutine calls Allow(ip, path) and reaches l.mu.Lock()
AllowCall(p, ip, path) ==
    /\ pc[p] = "idle"
    /\ nCalls < MaxCalls
    /\ nCalls' = nCalls + 1
    /\ pc' = [pc EXCEPT ![p] = "lock"]
    /\ arg' = [arg EXCEPT ![p] = [ip |-> ip, path |-> path]]
    /\ UNCHANGED <<clock, limits, store, lastAllow, admitted, policyChanged, nAddLimits,
                   mu, rateLimit, validRequests, tFilter>>
    /\ UNCHANGED <<lastAdded, tokenVars, hasherVars, loginVars, extVars>>

\* l.mu.Lock()
AllowLock(p) ==
    /\ pc[p] = "lock"
    /\ TryLock(p)
    /\ mu' = p
    /\ pc' = [pc EXCEPT ![p] = "lookup"]
    /\ UNCHANGED <<clock, sharedVars, arg, rateLimit, validRequests, tFilter>>
    /\ UNCHANGED <<lastAdded, tokenVars, hasherVars, loginVars, extVars>>

\* rateLimit, exists := l.limits[path]; if !exists { return true }
AllowLookup(p) ==
    /\ pc[p] = "lookup"
    /\ IF arg[p].path \notin DOMAIN limits
       THEN /\ lastAllow' = [ip |-> arg[p].ip, path |-> arg[p].path,
                             ok |-> NoPolicyResult, limited |-> FALSE, t |-> clock]
            /\ pc' = [pc EXCEPT ![p] = "idle"]
            /\ arg' = [arg EXCEPT ![p] = NoArg]
            /\ mu' = IF mu = p THEN NoProc ELSE mu
            /\ UNCHANGED rateLimit
       ELSE /\ rateLimit' = [rateLimit EXCEPT ![p] = limits[arg[p].path]]
            /\ pc' = [pc EXCEPT ![p] = "filter"]
            /\ UNCHANGED <<lastAllow, arg, mu>>
    /\ UNCHANGED <<clock, limits, store, admitted, policyChanged, nCalls, nAddLimits,
                   validRequests, tFilter>>
    /\ UNCHANGED <<lastAdded, tokenVars, hasherVars, loginVars, extVars>>

\* history := l.store[ip][path]; validRequests := filter; l.store[ip][path] = validRequests
AllowFilter(p) ==
    /\ pc[p] = "filter"
    /\ LET valid == filterValidRequests(History(arg[p].ip, arg[p].path),
                                        rateLimit[p].Window, clock)
       IN /\ validRequests' = [validRequests EXCEPT ![p] = valid]
          /\ store' = StoreSet(arg[p].ip, arg[p].path, valid)
    /\ tFilter' = [tFilter EXCEPT ![p] = clock]
    /\ pc' = [pc EXCEPT ![p] = "check"]
    /\ UNCHANGED <<clock, limits, lastAllow, admitted, policyChanged, nCalls, nAddLimits,
                   mu, arg, rateLimit>>
    /\ UNCHANGED <<lastAdded, tokenVars, hasherVars, loginVars, extVars>>

\* if len(validRequests) >= MaxRequests { return false }; append time.Now(); return true
AllowCheck(p) ==
    /\ pc[p] = "check"
    /\ LET ok == ~OverLimit(Len(validRequests[p]), rateLimit[p].MaxRequests)
           key == <<arg[p].ip, arg[p].path>>
       IN /\ store' = IF ok THEN StoreSet(arg[p].ip, arg[p].path,
                                          Recorded(validRequests[p], ok, clock))
                        ELSE store
          /\ admitted' = IF ok THEN [admitted EXCEPT ![key] = Append(@, clock)]
                         ELSE admitted
          /\ lastAllow' = [ip |-> arg[p].ip, path |-> arg[p].path, ok |-> ok,
                           limited |-> TRUE, t |-> tFilter[p]]
    /\ pc' = [pc EXCEPT ![p] = "idle"]
    /\ arg' = [arg EXCEPT ![p] = NoArg]
    /\ rateLimit' = [rateLimit EXCEPT ![p] = NoLimit]
    /\ validRequests' = [validRequests EXCEPT ![p] = <<>>]
    /\ tFilter' = [tFilter EXCEPT ![p] = -1]
    /\ mu' = IF mu = p THEN NoProc ELSE mu
    /\ UNCHANGED <<clock, limits, policyChanged, nCalls, nAddLimits>>
    /\ UNCHANGED <<lastAdded, tokenVars, hasherVars, loginVars, extVars>>

\* an AddLimit that also forgets the request histories
AddLimitResetting(limitList) ==
    /\ nAddLimits < MaxAddLimits
    /\ TryLock(NoProc)
    /\ limits' = MapsCopy(limits, limitList)
    /\ store' = [i \in {} |-> <<>>]
    /\ policyChanged' = policyChanged \cup
          {p \in DOMAIN limitList \cap DOMAIN limits : limitList[p] # limits[p]}
    /\ nAddLimits' = nAddLimits + 1
    /\ UNCHANGED <<clock, lastAllow, admitted, nCalls, procVars>>
    /\ UNCHANGED <<tokenVars, hasherVars, loginVars, extVars>>

\* Limiter.AddLimit: lock, maps.Copy, unlock
AddLimit(limitList) ==
    /\ nAddLimits < MaxAddLimits
    /\ TryLock(NoProc)
    /\ limits' = MapsCopy(limits, limitList)
    /\ policyChanged' = policyChanged \cup
          {p \in DOMAIN limitList \cap DOMAIN limits : limitList[p] # limits[p]}
    /\ nAddLimits' = nAddLimits + 1
    /\ UNCHANGED <<clock, store, lastAllow, admitted, nCalls, procVars>>
    /\ UNCHANGED <<tokenVars, hasherVars, loginVars, extVars>>

\* time passes
Tick ==
    /\ clock < MaxTime
    /\ clock' = clock + 1
    /\ UNCHANGED <<limiterVars, tokenVars, hasherVars, loginVars, extVars>>

(***************************************************************************)
(* security.jwtGenerator                                                   *)
(***************************************************************************)
\* clock ticks in one second: time.Now() is finer than jwt.TimePrecision
TicksPerSecond == 2
\* seconds in one time.Minute, scaled down
SecondsPerMinute == 2
TicksPerMinute == SecondsPerMinute * TicksPerSecond
\* last instant of the token service's clock
MaxTokenTime == TicksPerMinute + TicksPerSecond

\* len(Keys[k]) < 32
MinKeyLength == 32

KeyIDs == {"key1", "key2"}

\* key material: a body of len bytes with sp bytes of white space around it
Material(body, len, sp) == [body |-> body, len |-> len, sp |-> sp]
\* the zero value g.keys[kid] of a kid that is not in the map
EmptyMaterial == Material("", 0, 0)
KeyA == Material("A", MinKeyLength, 0)
KeyB == Material("B", MinKeyLength, 0)
KeyShort == Material("S", MinKeyLength - 1, 0)
KeyPadded == Material("P", MinKeyLength, 1)
KeyPaddedShort == Material("Q", MinKeyLength - 1, 1)
\* material of a key the service never had
KeyAttacker == Material("E", MinKeyLength, 0)

\* the Keys maps passed to NewJWTGenerator
KeyRings ==
    { ("key1" :> KeyA),
      ("key1" :> KeyA) @@ ("key2" :> KeyB),
      ("key2" :> KeyB),
      ("key1" :> KeyA) @@ ("key2" :> KeyShort),
      ("key1" :> KeyPadded),
      ("key1" :> KeyPaddedShort) }

\* the arguments of NewJWTGenerator: every current key id with every map,
\* and a duration or a logger the constructor refuses
NewArgs ==
    { [kid |-> kid, Keys |-> Keys, durationMinutes |-> 1, loggerNil |-> FALSE] :
        kid \in KeyIDs, Keys \in KeyRings } \cup
    { [kid |-> "key1", Keys |-> ("key1" :> KeyA), durationMinutes |-> 0,
       loggerNil |-> FALSE],
      [kid |-> "key1", Keys |-> ("key1" :> KeyA), durationMinutes |-> 1,
       loggerNil |-> TRUE] }

\* a string left as it is
TrimNothing(m) == m

\* strings.TrimSpace
TrimSpace(m) == [m EXCEPT !.sp = 0]
\* len(string)
StrLen(m) == m.len + m.sp

\* *domain.User values; NilUser is the nil pointer
NilUser == [nil |-> TRUE]
Users ==
    { [ID |-> 1, Email |-> "a@x", Role |-> "USER", HashedPassword |-> "h1"],
      [ID |-> 2, Email |-> "b@x", Role |-> "ADMIN", HashedPassword |-> "h2"] }

NoGen == [nil |-> TRUE]
NoNewArg == [none |-> TRUE]
NoToken == [segments |-> 0]
NoGenRes == [token |-> NoToken, err |-> "none", user |-> NilUser]
NoValRes == [token |-> NoToken, issued |-> FALSE, user |-> NilUser, cause |-> "none",
             err |-> "none"]

\* jwt.NewNumericDate: the instant truncated to jwt.TimePrecision, in seconds
NewNumericDate(t) == t \div TicksPerSecond
\* NumericDate.Time: the instant of a numeric date, in clock ticks
NumericTime(sec) == sec * TicksPerSecond

\* claims whose expiry is a second later than issued-at + duration
MarshalClaimsLateExpiry(user, now, tokenDuration) ==
    [user_id |-> user.ID, email |-> user.Email, role |-> user.Role,
     exp |-> NewNumericDate(now + tokenDuration) + 1,
     iat |-> NewNumericDate(now),
     nbf |-> NewNumericDate(now)]

\* json.Marshal of Claims: the JSON object carried by the token
MarshalClaims(user, now, tokenDuration) ==
    [user_id |-> user.ID, email |-> user.Email, role |-> user.Role,
     exp |-> NewNumericDate(now + tokenDuration),
     iat |-> NewNumericDate(now),
     nbf |-> NewNumericDate(now)]

\* json.Unmarshal into Claims
UnmarshalClaims(payload) ==
    [UserID |-> payload.user_id, Email |-> payload.email, Role |-> payload.role,
     ExpiresAt |-> NumericTime(payload.exp),
     IssuedAt |-> NumericTime(payload.iat),
     NotBefore |-> NumericTime(payload.nbf)]

\* the HMAC of header and payload under a key
Sign(alg, kid, payload, key) ==
    [key |-> key, alg |-> alg, kid |-> kid, payload |-> payload]

\* Token.SignedString: the three segments of a signed token
SignedString(alg, kid, payload, key) ==
    [segments |-> 3, alg |-> alg, kid |-> kid, payload |-> payload,
     sig |-> Sign(alg, kid, payload, key)]

\* SigningMethodHMAC.Verify
VerifySig(tok, key) == tok.sig = Sign(tok.alg, tok.kid, tok.payload, key)

\* algorithms whose method is a *jwt.SigningMethodHMAC
HMACAlgs == {"HS256", "HS384"}

\* g.keys[kid], the zero value when kid is missing
KeyOf(g, kid) == IF kid \in DOMAIN g.keys THEN g.keys[kid] ELSE EmptyMaterial

\* an expiry check that still accepts the instant of expiry
NotExpiredInclusive(now, exp) == now <= exp

\* Validator.verifyExpiresAt: now.Before(exp)
NotExpired(now, exp) == now < exp

\* Validator.verifyNotBefore: !now.Before(nbf)
NotBeforeOK(now, nbf) == ~(now < nbf)

\* jwt.ParseWithClaims with the key function of Validate: the first check that fails
ParseWithClaims(g, tok, now) ==
    IF tok.segments # 3 THEN "ErrTokenMalformed"
    ELSE IF tok.alg \notin HMACAlgs THEN "ErrUnexpectedSigningMethod"
    ELSE IF tok.kid # g.currentKey THEN "ErrUnexpectedKeyID"
    ELSE IF ~VerifySig(tok, KeyOf(g, g.currentKey)) THEN "ErrTokenSignatureInvalid"
    ELSE IF ~NotExpired(now, UnmarshalClaims(tok.payload).ExpiresAt) THEN "ErrTokenExpired"
    ELSE IF ~NotBeforeOK(now, UnmarshalClaims(tok.payload).NotBefore) THEN "ErrTokenNotValidYet"
    ELSE "nil"

\* the cause returned as it is
ValidateErrorBare(cause) == cause

\* fmt.Errorf("%w: %w", domain.ErrInvalidToken, err): the category a caller
\* matches the error of Validate with
ValidateError(cause) == IF cause = "nil" THEN "nil" ELSE "ErrInvalidToken"

\* a reconstruction that forgets the role
UserFromClaimsNoRole(claims) ==
    [ID |-> claims.UserID, Email |-> claims.Email, Role |-> "", HashedPassword |-> ""]

\* user := &domain.User{ID: claims.UserID, Email: claims.Email, Role: claims.Role}
UserFromClaims(claims) ==
    [ID |-> claims.UserID, Email |-> claims.Email, Role |-> claims.Role,
     HashedPassword |-> ""]

\* tokens made from an issued one by somebody who does not hold its key
Tampered(tok) ==
    { [tok EXCEPT !.payload.role = "ADMIN"],
      [tok EXCEPT !.payload.exp = @ + SecondsPerMinute],
      [tok EXCEPT !.alg = "none"],
      [tok EXCEPT !.alg = "RS256"],
      [tok EXCEPT !.segments = 2],
      SignedString(tok.alg, tok.kid, tok.payload, KeyAttacker) } \ {tok}

\* a numeric date after the end of the behaviour
FarDate == MaxTokenTime \div TicksPerSecond + 1

\* tokens made from nothing, signed with material anybody has
Scratch ==
    { SignedString(h[1], h[3],
                   [user_id |-> 9, email |-> "m@x", role |-> "ADMIN",
                    exp |-> FarDate, iat |-> 0, nbf |-> h[2]], h[4]) :
        h \in { <<"HS256", 0, "key1", EmptyMaterial>>,
                <<"HS256", 0, "key2", EmptyMaterial>>,
                <<"HS384", 0, "key2", EmptyMaterial>>,
                <<"HS256", FarDate, "key2", EmptyMaterial>>,
                <<"HS256", 0, "key1", KeyAttacker>> } }

\* the tokens Generate has handed out that are still presented
Issued == IF held = NoToken THEN {} ELSE {held}

\* the token strings a caller may present to Validate
Presentable == Issued \cup UNION {Tampered(tok) : tok \in Issued} \cup Scratch

InitToken ==
    /\ gen = NoGen
    /\ newErr = "none"
    /\ newArg = NoNewArg
    /\ held = NoToken
    /\ genRes = NoGenRes
    /\ valRes = NoValRes
    /\ expiredSeen = FALSE

\* the value and the error of security.NewJWTGenerator
newGenerator(kid, Keys, durationMinutes, loggerNil) ==
    LET trimmed == [k \in DOMAIN Keys |-> TrimSpace(Keys[k])]
        err == IF \E k \in DOMAIN Keys : StrLen(trimmed[k]) < MinKeyLength
                  THEN "ErrKeyIsTooShort"
               ELSE IF durationMinutes <= 0 THEN "ErrDurationMustBePositive"
               ELSE IF loggerNil THEN "ErrLoggerCanNotBeNil"
               ELSE "nil"
    IN [gen |-> IF err = "nil"
                THEN [keys |-> trimmed, currentKey |-> kid,
                      tokenDuration |-> durationMinutes * TicksPerMinute]
                ELSE NoGen,
        err |-> err]

\* a Generate that signs for a nil user as for an empty one
generateUnchecked(g, user, now) ==
    LET u == IF user = NilUser
             THEN [ID |-> 0, Email |-> "", Role |-> "", HashedPassword |-> ""]
             ELSE user
    IN [token |-> SignedString("HS256", g.currentKey,
                               MarshalClaims(u, now, g.tokenDuration),
                               KeyOf(g, g.currentKey)),
        err |-> "nil"]

\* the values of jwtGenerator.Generate at the instant now
generate(g, user, now) ==
    IF user = NilUser
    THEN [token |-> NoToken, err |-> "ErrUserCanNotBeNil"]
    ELSE [token |-> SignedString("HS256", g.currentKey,
                                 MarshalClaims(user, now, g.tokenDuration),
                                 KeyOf(g, g.currentKey)),
          err |-> "nil"]

\* security.NewJWTGenerator
NewJWTGenerator(kid, Keys, durationMinutes, loggerNil) ==
    LET new == newGenerator(kid, Keys, durationMinutes, loggerNil)
    IN /\ newErr' = new.err
       /\ newArg' = [kid |-> kid, Keys |-> Keys, durationMinutes |-> durationMinutes,
                     loggerNil |-> loggerNil]
       /\ gen' = new.gen
       /\ genRes' = NoGenRes
       /\ valRes' = NoValRes
       /\ UNCHANGED <<clock, limiterVars, held, expiredSeen, hasherVars, loginVars, extVars>>

\* jwtGenerator.Generate
Generate(user) ==
    /\ gen # NoGen
    /\ LET res == generate(gen, user, clock)
       IN /\ genRes' = [token |-> res.token, err |-> res.err, user |-> user]
          /\ held' = IF res.err = "nil" THEN res.token ELSE held
          /\ expiredSeen' = IF res.err = "nil" /\ res.token # held THEN FALSE
                            ELSE expiredSeen
    /\ UNCHANGED <<clock, limiterVars, gen, newErr, newArg, valRes, hasherVars, loginVars, extVars>>

\* jwtGenerator.Validate
Validate(tok) ==
    /\ gen # NoGen
    /\ LET cause == ParseWithClaims(gen, tok, clock)
       IN /\ valRes' = [token |-> tok,
                        issued |-> (tok \in Issued),
                        user |-> IF cause = "nil"
                                 THEN UserFromClaims(UnmarshalClaims(tok.payload))
                                 ELSE NilUser,
                        cause |-> cause,
                        err |-> ValidateError(cause)]
          /\ expiredSeen' = (expiredSeen \/ (tok = held /\ cause = "ErrTokenExpired"))
    /\ UNCHANGED <<clock, limiterVars, gen, newErr, newArg, held, genRes, hasherVars,
                   loginVars, extVars>>

\* time passes for the token service; the results returned before are gone
TickToken ==
    /\ clock < MaxTokenTime
    /\ clock' = clock + 1
    /\ genRes' = NoGenRes
    /\ valRes' = NoValRes
    /\ UNCHANGED <<limiterVars, gen, newErr, newArg, held, expiredSeen, hasherVars,
                   loginVars, extVars>>

\* key material the caller of NewJWTGenerator stores in its map afterwards
WrittenKeys == {KeyB, KeyShort, KeyAttacker}

\* Keys[k] = m by the caller of NewJWTGenerator after the call: the service
\* holds the caller's map itself (keys: Keys), not a copy of it
KeysWrite(k, m) ==
    /\ gen # NoGen
    /\ gen' = [gen EXCEPT !.keys = (k :> m) @@ @]
    /\ genRes' = NoGenRes
    /\ valRes' = NoValRes
    /\ UNCHANGED <<clock, limiterVars, newErr, newArg, held, expiredSeen, hasherVars,
                   loginVars, extVars>>

(***************************************************************************)
(* The password hasher: bcryptHasher over golang.org/x/crypto/bcrypt       *)
(***************************************************************************)
\* len(password) > 72
MaxPasswordLength == 72
\* bcrypt.MinCost and bcrypt.MaxCost
MinCost == 4
MaxCost == 31
\* security.NewBcryptHasher(10)
AppCost == 10

\* A string: reps copies of a unit of unitLen bytes that holds no NUL byte,
\* joined by single NUL bytes, then tail more bytes; cont of the unit's bytes
\* are UTF-8 continuation bytes.  enc is what the bytes say when they are read
\* as a bcrypt hash.
NoEnc == [ok |-> FALSE]
Secret(unit, unitLen, cont, reps, tail) ==
    [unit |-> unit, unitLen |-> unitLen, cont |-> cont, reps |-> reps, tail |-> tail,
     enc |-> NoEnc]

\* len(s)
ByteLen(s) == s.reps * s.unitLen + (s.reps - 1) + s.tail
\* utf8.RuneCountInString(s)
RuneCountInString(s) == ByteLen(s) - s.reps * s.cont

EmptyString == Secret("", 0, 0, 1, 0)
Hunter == Secret("hunter42", 8, 0, 1, 0)
\* "hunter42\x00hunter42"
HunterTwice == Secret("hunter42", 8, 0, 2, 0)
Sesame == Secret("sesame99", 8, 0, 1, 0)
\* seven runes of two bytes each
Wide == Secret("wide", 14, 7, 1, 0)
Short == Secret("short", 7, 0, 1, 0)
Longest == Secret("long", MaxPasswordLength, 0, 1, 0)
\* Longest and one more byte
TooLong == Secret("long", MaxPasswordLength, 0, 1, 1)

Secrets == {EmptyString, Hunter, HunterTwice, Sesame, Longest, TooLong}

\* the 16 random bytes of a salt
Salts == {"salt1", "salt2"}

\* blowfish.ExpandKey on the key with its trailing NUL: the 72 bytes the key
\* schedule reads, cycling through the key when it is shorter
ExpandKey(s) ==
    IF s.tail = 0 \/ ByteLen(s) - s.tail >= MaxPasswordLength
    THEN [unit |-> s.unit, unitLen |-> s.unitLen, reps |-> 0, tail |-> 0]
    ELSE [unit |-> s.unit, unitLen |-> s.unitLen, reps |-> s.reps, tail |-> s.tail]

\* bcrypt.bcrypt: the digest of a password under a cost and a salt
Digest(password, cost, salt) ==
    [key |-> ExpandKey(password), cost |-> cost, salt |-> salt]

\* bcrypt.GenerateFromPassword: the 60 bytes "$2a$cost$salt+digest"
GenerateFromPassword(password, cost, salt) ==
    [unit |-> "$2a$", unitLen |-> 60, cont |-> 0, reps |-> 1, tail |-> 0,
     enc |-> [ok |-> TRUE, cost |-> cost, salt |-> salt,
              digest |-> Digest(password, cost, salt)]]

\* bcrypt.CompareHashAndPassword
CompareHashAndPassword(hashedPassword, password) ==
    IF ~hashedPassword.enc.ok THEN "ErrHashTooShort"
    ELSE IF Digest(password, hashedPassword.enc.cost, hashedPassword.enc.salt)
            = hashedPassword.enc.digest
         THEN "nil"
         ELSE "ErrMismatchedHashAndPassword"

\* the literals of the dummy comparison in Login
SomeFakePassword == Secret("someFakePassword", 16, 0, 1, 0)
DummyHash ==
    [unit |-> "$2y$", unitLen |-> 60, cont |-> 0, reps |-> 1, tail |-> 0,
     enc |-> [ok |-> TRUE, cost |-> AppCost, salt |-> "QqDjvtHjrzwxwjQJrIwGFu",
              digest |-> Digest(Secret("dummy", 5, 0, 1, 0), AppCost,
                                "QqDjvtHjrzwxwjQJrIwGFu")]]

NoHasher == [nil |-> TRUE]
NoHashRes == [password |-> EmptyString, hash |-> EmptyString, err |-> "none",
              bcrypt |-> FALSE]
NoCmpRes == [hashedPassword |-> EmptyString, plainPassword |-> EmptyString,
             err |-> "none"]

\* the value and the error of security.NewBcryptHasher
newBcryptHasher(cost) ==
    IF cost < MinCost \/ cost > MaxCost
    THEN [hasher |-> NoHasher, err |-> "invalid bcrypt cost"]
    ELSE [hasher |-> [cost |-> cost], err |-> "nil"]

\* a Hash without the length check: bcrypt reads the first 72 bytes
hashTruncating(h, password, salt, randOK) ==
    IF ~randOK
    THEN [hash |-> EmptyString, err |-> "failed to hash password", bcrypt |-> TRUE]
    ELSE [hash |-> GenerateFromPassword(password, h.cost, salt), err |-> "nil",
          bcrypt |-> TRUE]

\* the values of bcryptHasher.Hash; randOK: the salt could be read; bcrypt:
\* bcrypt.GenerateFromPassword was called
hash(h, password, salt, randOK) ==
    IF ByteLen(password) > MaxPasswordLength
    THEN [hash |-> EmptyString, err |-> "ErrInvalidCredentials", bcrypt |-> FALSE]
    ELSE IF ~randOK
         THEN [hash |-> EmptyString, err |-> "failed to hash password", bcrypt |-> TRUE]
         ELSE [hash |-> GenerateFromPassword(password, h.cost, salt), err |-> "nil",
               bcrypt |-> TRUE]

\* a Compare with an error of its own for an over-long password
compareNamingLength(hashedPassword, plainPassword) ==
    IF ByteLen(plainPassword) > MaxPasswordLength THEN "ErrPasswordTooLong"
    ELSE LET err == CompareHashAndPassword(hashedPassword, plainPassword)
         IN IF err = "nil" THEN "nil"
            ELSE IF err = "ErrMismatchedHashAndPassword" THEN "ErrInvalidCredentials"
            ELSE "failed to compare passwords"

\* the value of bcryptHasher.Compare
compare(hashedPassword, plainPassword) ==
    IF ByteLen(plainPassword) > MaxPasswordLength THEN "ErrInvalidCredentials"
    ELSE LET err == CompareHashAndPassword(hashedPassword, plainPassword)
         IN IF err = "nil" THEN "nil"
            ELSE IF err = "ErrMismatchedHashAndPassword" THEN "ErrInvalidCredentials"
            ELSE "failed to compare passwords"

InitHasher ==
    /\ hasher = NoHasher
    /\ hashRes = NoHashRes
    /\ cmpRes = NoCmpRes

\* security.NewBcryptHasher
NewBcryptHasher(cost) ==
    /\ hasher' = newBcryptHasher(cost).hasher
    /\ UNCHANGED <<clock, limiterVars, tokenVars, hashRes, cmpRes, loginVars, extVars>>

\* bcryptHasher.Hash
Hash(password, salt, randOK) ==
    /\ hasher # NoHasher
    /\ hashRes' = [password |-> password,
                   hash |-> hash(hasher, password, salt, randOK).hash,
                   err |-> hash(hasher, password, salt, randOK).err,
                   bcrypt |-> hash(hasher, password, salt, randOK).bcrypt]
    /\ UNCHANGED <<clock, limiterVars, tokenVars, hasher, cmpRes, loginVars, extVars>>

\* the strings a caller holds to pass as a stored hash
StoredHashes ==
    (IF hashRes.err = "nil" THEN {hashRes.hash} ELSE {}) \cup {SomeFakePassword, DummyHash}

\* bcryptHasher.Compare
Compare(hashedPassword, plainPassword) ==
    /\ hasher # NoHasher
    /\ cmpRes' = [hashedPassword |-> hashedPassword, plainPassword |-> plainPassword,
                  err |-> compare(hashedPassword, plainPassword)]
    /\ UNCHANGED <<clock, limiterVars, tokenVars, hasher, hashRes, loginVars, extVars>>

(***************************************************************************)
(* Register and Login: userUseCase over the users table                     *)
(***************************************************************************)
\* an email: an address with sp bytes of white space around it; at: it holds "@"
Email(addr, at, sp) == [addr |-> addr, at |-> at, sp |-> sp]
EmailA == Email("a@x", TRUE, 0)
EmailAPadded == Email("a@x", TRUE, 1)
EmailB == Email("b@x", TRUE, 0)
EmailNoAt == Email("ax", FALSE, 0)
EmailBlank == Email("", FALSE, 1)
LoginEmails == {EmailA, EmailAPadded, EmailB}
RegisterEmails == {EmailA, EmailAPadded, EmailNoAt, EmailBlank}
RegisterSecrets == {Hunter, Longest, TooLong, Short, Wide, EmptyString}
LoginSecrets == {Hunter, HunterTwice, Sesame, TooLong}

\* config.JWTConfig values: Keys holds JWT_KEY1 and JWT_KEY2
Configs ==
    { [Keys |-> ("key1" :> KeyA) @@ ("key2" :> KeyB), TokenDuration |-> 1],
      [Keys |-> ("key1" :> KeyA) @@ ("key2" :> KeyShort), TokenDuration |-> 1] }

\* where the database fails during a call
DBFaults == {"none", "GetByEmail", "Create"}

NoRegRes == [user |-> NilUser, err |-> "none"]
NoLoginRes == [email |-> EmailBlank, lookup |-> "none", compares |-> << >>,
               generated |-> FALSE, token |-> NoToken, user |-> NilUser, err |-> "none"]

\* userRepository.GetByEmail
GetByEmail(email, fault) ==
    IF fault = "GetByEmail"
    THEN [user |-> NilUser, err |-> "failed to get user by email"]
    ELSE IF \E u \in repo : u.Email = email
         THEN [user |-> CHOOSE u \in repo : u.Email = email, err |-> "nil"]
         ELSE [user |-> NilUser, err |-> "ErrUserNotFound"]

\* userRepository.Create: the row inserted and the error; emails are unique
Create(email, hashedPassword, role, fault) ==
    IF fault = "Create"
    THEN [user |-> NilUser, err |-> "failed to create user"]
    ELSE IF \E u \in repo : u.Email = email
         THEN [user |-> NilUser, err |-> "ErrEmailAlreadyExists"]
         ELSE [user |-> [ID |-> Cardinality(repo) + 1, Email |-> email, Role |-> role,
                         HashedPassword |-> hashedPassword],
               err |-> "nil"]

\* userUseCase.validateEmail
validateEmail(email) ==
    IF TrimSpace(email).addr = "" THEN "ErrInvalidEmail"
    ELSE IF ~TrimSpace(email).at THEN "ErrInvalidEmail"
    ELSE "nil"

\* the least number of runes of a password
MinPasswordRunes == 8

\* userUseCase.validatePassword
validatePassword(password) ==
    IF password = EmptyString \/ RuneCountInString(password) < MinPasswordRunes
       \/ ByteLen(password) > MaxPasswordLength
    THEN "ErrInvalidPassword"
    ELSE "nil"

\* one call of PasswordHasher.Compare, with its arguments
CompareCall(hashedPassword, plainPassword) ==
    [hashedPassword |-> hashedPassword, plainPassword |-> plainPassword,
     err |-> compare(hashedPassword, plainPassword)]

\* a lookup failure answered at once, without the dummy comparison
LoginOnLookupErrorAtOnce(email, err) ==
    [email |-> email, lookup |-> err, compares |-> << >>,
     generated |-> FALSE, token |-> NoToken, user |-> NilUser,
     err |-> IF err = "ErrUserNotFound" THEN "ErrInvalidCredentials"
             ELSE "failed to get user"]

\* Login when GetByEmail returned an error
LoginOnLookupError(email, err) ==
    [email |-> email, lookup |-> err,
     compares |-> << CompareCall(SomeFakePassword, DummyHash) >>,
     generated |-> FALSE, token |-> NoToken, user |-> NilUser,
     err |-> IF err = "ErrUserNotFound" THEN "ErrInvalidCredentials"
             ELSE "failed to get user"]

\* a Login that generates a token whatever Compare returned
LoginOnUserUnchecked(email, user, password) ==
    [email |-> email, lookup |-> "nil",
     compares |-> << CompareCall(user.HashedPassword, password) >>,
     generated |-> TRUE,
     token |-> generate(gen, user, clock).token,
     user |-> user,
     err |-> "nil"]

\* Login when GetByEmail returned a user
LoginOnUser(email, user, password) ==
    LET c == CompareCall(user.HashedPassword, password)
    IN IF c.err # "nil"
       THEN [email |-> email, lookup |-> "nil", compares |-> << c >>,
             generated |-> FALSE, token |-> NoToken, user |-> NilUser,
             err |-> "ErrInvalidCredentials"]
       ELSE [email |-> email, lookup |-> "nil", compares |-> << c >>,
             generated |-> TRUE,
             token |-> generate(gen, user, clock).token,
             user |-> IF generate(gen, user, clock).err = "nil" THEN user ELSE NilUser,
             err |-> IF generate(gen, user, clock).err = "nil" THEN "nil"
                     ELSE "failed to generate token"]

\* what a caller of Login observes: the triple returned and the comparisons made
Outcome(res) ==
    [token |-> res.token, user |-> res.user, err |-> res.err,
     compares |-> Len(res.compares)]

InitLogin ==
    /\ repo = {}
    /\ regRes = NoRegRes
    /\ loginRes = NoLoginRes
    /\ loginArg = [email |-> EmailBlank, password |-> EmptyString]
    /\ observed = [notFound |-> {}, wrongPassword |-> {}]

\* app.initSecurity: both services or none
initSecurity(cfg) ==
    /\ hasher = NoHasher
    /\ newBcryptHasher(AppCost).err = "nil"
    /\ newGenerator("key1", cfg.Keys, cfg.TokenDuration, FALSE).err = "nil"
    /\ hasher' = newBcryptHasher(AppCost).hasher
    /\ gen' = newGenerator("key1", cfg.Keys, cfg.TokenDuration, FALSE).gen
    /\ newErr' = "nil"
    /\ newArg' = [kid |-> "key1", Keys |-> cfg.Keys, durationMinutes |-> cfg.TokenDuration,
                  loggerNil |-> FALSE]
    /\ UNCHANGED <<clock, limiterVars, held, genRes, valRes, expiredSeen, hashRes, cmpRes,
                   loginVars, extVars>>

\* userUseCase.Register
Register(email, password, salt, randOK, fault) ==
    /\ hasher # NoHasher
    /\ LET e == TrimSpace(email)
           existing == GetByEmail(e, fault)
           h == hash(hasher, password, salt, randOK)
           created == Create(e, h.hash, "USER", fault)
           res == IF validateEmail(e) # "nil"
                     THEN [user |-> NilUser, err |-> validateEmail(e)]
                  ELSE IF validatePassword(password) # "nil"
                     THEN [user |-> NilUser, err |-> validatePassword(password)]
                  ELSE IF existing.err \notin {"nil", "ErrUserNotFound"}
                     THEN [user |-> NilUser, err |-> "failed to check existing user"]
                  ELSE IF existing.user # NilUser
                     THEN [user |-> NilUser, err |-> "ErrEmailAlreadyExists"]
                  ELSE IF h.err # "nil"
                     THEN [user |-> NilUser, err |-> "failed to hash password"]
                  ELSE IF created.err # "nil"
                     THEN [user |-> NilUser, err |-> "failed to create user"]
                  ELSE [user |-> created.user, err |-> "nil"]
       IN /\ regRes' = res
          /\ repo' = IF res.err = "nil" THEN repo \cup {res.user} ELSE repo
    /\ UNCHANGED <<clock, limiterVars, tokenVars, hasherVars, loginRes, loginArg,
                   observed, extVars>>

\* userUseCase.Login
Login(email, password, fault) ==
    /\ hasher # NoHasher
    /\ gen # NoGen
    /\ LET e == TrimSpace(email)
           found == GetByEmail(e, fault)
           res == IF found.err # "nil" THEN LoginOnLookupError(e, found.err)
                  ELSE LoginOnUser(e, found.user, password)
       IN /\ loginRes' = res
          /\ loginArg' = [email |-> email, password |-> password]
          /\ observed' =
               IF res.lookup = "ErrUserNotFound"
               THEN [observed EXCEPT !.notFound = @ \cup {Outcome(res)}]
               ELSE IF res.lookup = "nil" /\ res.compares[1].err # "nil"
               THEN [observed EXCEPT !.wrongPassword = @ \cup {Outcome(res)}]
               ELSE observed
    /\ UNCHANGED <<clock, limiterVars, tokenVars, hasherVars, repo, regRes, extVars>>

(***************************************************************************)
(* Register called by several goroutines at once                           *)
(***************************************************************************)
\* the goroutines calling Register
Registrants == {1, 2, 3}
ConcEmails == {EmailA, EmailAPadded, EmailB}
ConcSecrets == {Hunter, Longest}

\* An error value is the chain of its messages and sentinels, outermost
\* first; the nil error is the empty chain.
NoError == << >>
\* the error value of a result of the repository, the hasher or a validation
ErrorOf(e) == IF e = "nil" THEN NoError ELSE <<e>>

\* fmt.Errorf("msg: %v", err): the cause is only text
WrapOpaque(msg, err) == <<msg>>

\* fmt.Errorf("msg: %w", err)
Wrap(msg, err) == <<msg>> \o err

\* errors.Is(err, target)
ErrorsIs(err, target) == \E i \in DOMAIN err : err[i] = target

NoRegistration ==
    [pc |-> "idle", email |-> EmailBlank, password |-> EmptyString, user |-> NilUser,
     err |-> NoError]

\* the record of a Register call that has returned
Returned(r, user, err) == [r EXCEPT !.pc = "done", !.user = user, !.err = err]

InitRegister == reg = [p \in Registrants |-> NoRegistration]

\* Register up to the pre-check: TrimSpace, validateEmail, validatePassword
RegisterCall(p, email, password) ==
    /\ hasher # NoHasher
    /\ reg[p].pc = "idle"
    /\ LET e == TrimSpace(email)
           invalid == IF validateEmail(e) # "nil" THEN validateEmail(e)
                      ELSE validatePassword(password)
       IN reg' = [reg EXCEPT ![p] =
                    [pc |-> IF invalid = "nil" THEN "GetByEmail" ELSE "done",
                     email |-> e, password |-> password, user |-> NilUser,
                     err |-> ErrorOf(invalid)]]
    /\ UNCHANGED <<clock, limiterVars, tokenVars, hasherVars, loginVars, appVars>>

\* Register, step 3: the pre-check with GetByEmail
RegisterGetByEmail(p, fault) ==
    /\ reg[p].pc = "GetByEmail"
    /\ LET existing == GetByEmail(reg[p].email, fault)
       IN reg' = [reg EXCEPT ![p] =
                    IF existing.err \notin {"nil", "ErrUserNotFound"}
                    THEN Returned(@, NilUser, Wrap("failed to check existing user",
                                                   ErrorOf(existing.err)))
                    ELSE IF existing.user # NilUser
                    THEN Returned(@, NilUser, ErrorOf("ErrEmailAlreadyExists"))
                    ELSE [@ EXCEPT !.pc = "Create"]]
    /\ UNCHANGED <<clock, limiterVars, tokenVars, hasherVars, loginVars, appVars>>

\* Register, steps 4 and 5: Hash, which touches nothing shared, and the
\* INSERT of Create, which the unique index on the email makes atomic
RegisterCreate(p, salt, randOK, fault) ==
    /\ reg[p].pc = "Create"
    /\ LET h == hash(hasher, reg[p].password, salt, randOK)
           created == Create(reg[p].email, h.hash, "USER", fault)
       IN IF h.err # "nil"
          THEN /\ reg' = [reg EXCEPT ![p] =
                           Returned(@, NilUser, Wrap("failed to hash password",
                                                     ErrorOf(h.err)))]
               /\ UNCHANGED repo
          ELSE IF created.err # "nil"
          THEN /\ reg' = [reg EXCEPT ![p] =
                           Returned(@, NilUser, Wrap("failed to create user",
                                                     ErrorOf(created.err)))]
               /\ UNCHANGED repo
          ELSE /\ reg' = [reg EXCEPT ![p] = Returned(@, created.user, NoError)]
               /\ repo' = repo \cup {created.user}
    /\ UNCHANGED <<clock, limiterVars, tokenVars, hasherVars, regRes, loginRes, loginArg,
                   observed, appVars>>

(***************************************************************************)
(* Shutdown: main, App.Close, Server.Shutdown and the database pool         *)
(***************************************************************************)
\* number of requests the server takes in one behaviour
MaxHandlers == 3
Requests == 1..MaxHandlers

InitApp ==
    /\ mainPc = "select"
    /\ server = "starting"
    /\ pool = "open"
    /\ handlers = [r \in Requests |-> "none"]

\* Server.Start: ListenAndServe listens
ListenAndServe ==
    /\ server = "starting"
    /\ server' = "listening"
    /\ UNCHANGED <<mainPc, pool, handlers>>
    /\ UNCHANGED <<clock, limiterVars, tokenVars, hasherVars, loginVars, registerVars>>

\* Server.Start returns an error; main receives it from serverErr
StartFails ==
    /\ server = "starting"
    /\ mainPc = "select"
    /\ server' = "failed"
    /\ mainPc' = "Close"
    /\ UNCHANGED <<pool, handlers>>
    /\ UNCHANGED <<clock, limiterVars, tokenVars, hasherVars, loginVars, registerVars>>

\* main receives SIGINT or SIGTERM from quit
Signal ==
    /\ mainPc = "select"
    /\ mainPc' = "Close"
    /\ UNCHANGED <<server, pool, handlers>>
    /\ UNCHANGED <<clock, limiterVars, tokenVars, hasherVars, loginVars, registerVars>>

\* the listening server takes a request and starts its handler
Accept(r) ==
    /\ server = "listening"
    /\ handlers[r] = "none"
    /\ handlers' = [handlers EXCEPT ![r] = "running"]
    /\ UNCHANGED <<mainPc, server, pool>>
    /\ UNCHANGED <<clock, limiterVars, tokenVars, hasherVars, loginVars, registerVars>>

\* a handler reaches the repository: the query acquires a connection of the
\* pool, which fails once the pool is closed
Acquire(r) ==
    /\ handlers[r] = "running"
    /\ handlers' = [handlers EXCEPT ![r] = IF pool = "open" THEN "query" ELSE "closedPool"]
    /\ UNCHANGED <<mainPc, server, pool>>
    /\ UNCHANGED <<clock, limiterVars, tokenVars, hasherVars, loginVars, registerVars>>

\* the query of a handler returns its connection and the handler responds
Release(r) ==
    /\ handlers[r] = "query"
    /\ handlers' = [handlers EXCEPT ![r] = "done"]
    /\ UNCHANGED <<mainPc, server, pool>>
    /\ UNCHANGED <<clock, limiterVars, tokenVars, hasherVars, loginVars, registerVars>>

\* App.Close, first statement: a.db.Close() refuses every later Acquire
PoolClose ==
    /\ mainPc = "Close"
    /\ pool' = "closed"
    /\ mainPc' = "db.Close"
    /\ UNCHANGED <<server, handlers>>
    /\ UNCHANGED <<clock, limiterVars, tokenVars, hasherVars, loginVars, registerVars>>

\* a.db.Close() returns when every acquired connection is back in the pool
PoolClosed ==
    /\ mainPc = "db.Close"
    /\ \A r \in Requests : handlers[r] # "query"
    /\ mainPc' = "server.Shutdown"
    /\ UNCHANGED <<server, pool, handlers>>
    /\ UNCHANGED <<clock, limiterVars, tokenVars, hasherVars, loginVars, registerVars>>

\* App.Close, second statement: a.server.Shutdown(ctx) closes the listeners
ServerShutdown ==
    /\ mainPc = "server.Shutdown"
    /\ server' = IF server = "listening" THEN "draining"
                 ELSE IF server = "starting" THEN "closed"
                 ELSE server
    /\ mainPc' = "draining"
    /\ UNCHANGED <<pool, handlers>>
    /\ UNCHANGED <<clock, limiterVars, tokenVars, hasherVars, loginVars, registerVars>>

\* http.Server.Shutdown returns: every handler has returned, or the context
\* of the shutdown has timed out
ServerStopped(timedOut) ==
    /\ mainPc = "draining"
    /\ timedOut \/ \A r \in Requests : handlers[r] \notin {"running", "query"}
    /\ server' = IF server = "draining" THEN "closed" ELSE server
    /\ mainPc' = "stopped"
    /\ UNCHANGED <<pool, handlers>>
    /\ UNCHANGED <<clock, limiterVars, tokenVars, hasherVars, loginVars, registerVars>>

Init ==
    /\ clock = 0
    /\ InitLimiter
    /\ InitToken
    /\ InitHasher
    /\ InitLogin
    /\ InitRegister
    /\ InitApp

\* inputs of the interleaving specification
ConcPaths == {"login"}
ConcLimitLists == UNION { [S -> RateLimit] : S \in (SUBSET ConcPaths) \ {{}} }

\* Allow and AddLimit called one after the other
NextLimiter ==
    \/ \E ip \in IPs, path \in Paths, d \in 0..1 : Allow(ip, path, d)
    \/ \E limitList \in LimitLists : AddLimit(limitList) /\ UNCHANGED lastAdded
    \/ Tick

SpecLimiter == Init /\ [][NextLimiter]_vars

\* goroutines calling Allow and AddLimit concurrently, statement by statement
NextConc ==
    \/ \E p \in Procs, ip \in IPs, path \in ConcPaths : AllowCall(p, ip, path)
    \/ \E p \in Procs : AllowLock(p)
    \/ \E p \in Procs : AllowLookup(p)
    \/ \E p \in Procs : AllowFilter(p)
    \/ \E p \in Procs : AllowCheck(p)
    \/ \E limitList \in ConcLimitLists : AddLimit(limitList) /\ UNCHANGED lastAdded
    \/ Tick

SpecConc == Init /\ [][NextConc]_vars

\* the identities of the policy specification
PolicyIPs == {"ip1"}

\* one client calling Allow while policies are added and replaced, every
\* AddLimit call logged with its argument
NextPolicy ==
    \/ \E ip \in PolicyIPs, path \in Paths, d \in 0..1 : Allow(ip, path, d)
    \/ \E limitList \in LimitLists : AddLimit(limitList) /\ lastAdded' = limitList
    \/ Tick

SpecPolicy == Init /\ [][NextPolicy]_vars

\* the token service constructed, used and reconstructed with other keys
NextToken ==
    \/ \E a \in NewArgs : NewJWTGenerator(a.kid, a.Keys, a.durationMinutes, a.loggerNil)
    \/ \E user \in Users \cup {NilUser} : Generate(user)
    \/ \E tok \in Presentable : Validate(tok)
    \/ TickToken

SpecToken == Init /\ [][NextToken]_vars

\* the maps of the key-ring specification
RingArgs == { a \in NewArgs : a.kid = "key1" /\ a.durationMinutes = 1 /\ ~a.loggerNil }

\* the token service used while its caller goes on writing to the map it
\* passed to the constructor
NextRing ==
    \/ \E a \in RingArgs : NewJWTGenerator(a.kid, a.Keys, a.durationMinutes, a.loggerNil)
    \/ \E k \in KeyIDs, m \in WrittenKeys : KeysWrite(k, m)
    \/ \E user \in Users \cup {NilUser} : Generate(user)
    \/ \E tok \in Presentable : Validate(tok)

SpecRing == Init /\ [][NextRing]_vars

\* goroutines calling Register at once on a working database
NextRegister ==
    \/ \E cfg \in Configs : initSecurity(cfg)
    \/ \E p \in Registrants, email \in ConcEmails, password \in ConcSecrets :
          RegisterCall(p, email, password)
    \/ \E p \in Registrants : RegisterGetByEmail(p, "none")
    \/ \E p \in Registrants, salt \in Salts : RegisterCreate(p, salt, TRUE, "none")

SpecRegister == Init /\ [][NextRegister]_vars

\* the process from the start of the server to the end of App.Close
NextShutdown ==
    \/ ListenAndServe
    \/ StartFails
    \/ Signal
    \/ \E r \in Requests : Accept(r)
    \/ \E r \in Requests : Acquire(r)
    \/ \E r \in Requests : Release(r)
    \/ PoolClose
    \/ PoolClosed
    \/ ServerShutdown
    \/ \E timedOut \in BOOLEAN : ServerStopped(timedOut)

SpecShutdown == Init /\ [][NextShutdown]_vars

\* the costs passed to NewBcryptHasher
Costs == {MinCost - 1, MinCost, AppCost, MaxCost + 1}

\* the hasher constructed and used on its own
NextHasher ==
    \/ \E cost \in Costs : NewBcryptHasher(cost)
    \/ \E password \in Secrets, salt \in Salts, randOK \in BOOLEAN :
          Hash(password, salt, randOK)
    \/ \E hashedPassword \in StoredHashes, plainPassword \in Secrets \cup {DummyHash} :
          Compare(hashedPassword, plainPassword)

SpecHasher == Init /\ [][NextHasher]_vars

\* the application wired by initSecurity, serving Register and Login
NextLogin ==
    \/ \E cfg \in Configs : initSecurity(cfg)
    \/ \E email \in RegisterEmails, password \in RegisterSecrets, salt \in Salts,
          randOK \in BOOLEAN, fault \in DBFaults :
          Register(email, password, salt, randOK, fault)
    \/ \E email \in LoginEmails, password \in LoginSecrets, fault \in DBFaults :
          Login(email, password, fault)

SpecLogin == Init /\ [][NextLogin]_vars

(***************************************************************************)
(* Properties of the limiter                                               *)
(***************************************************************************)
Keys == IPs \X Paths

\* the policy of the path is configured and was never replaced by another one
Stable(path) == path \in DOMAIN limits /\ path \notin policyChanged

\* number of admissions of key k with lo < time <= hi
AdmittedIn(k, lo, hi) ==
    Cardinality({i \in 1..Len(admitted[k]) : admitted[k][i] > lo /\ admitted[k][i] <= hi})

\* number of admissions of key k with lo <= time <= hi
AdmittedInClosed(k, lo, hi) ==
    Cardinality({i \in 1..Len(admitted[k]) : admitted[k][i] >= lo /\ admitted[k][i] <= hi})

\* C1 (as amended): under an unchanged policy (max, window), at every instant
\* now, at most max admissions of a key have their admission time in the
\* half-open trailing interval (now - window, now].
C1_SlidingWindowHalfOpen ==
    \A k \in Keys : Stable(k[2]) =>
        \A now \in 0..MaxTime :
            AdmittedIn(k, now - limits[k[2]].Window, now) <= limits[k[2]].MaxRequests

\* C1 (as stated): the same bound for the closed interval [now - window, now].
C1_SlidingWindowClosed ==
    \A k \in Keys : Stable(k[2]) =>
        \A now \in 0..MaxTime :
            AdmittedInClosed(k, now - limits[k[2]].Window, now) <= limits[k[2]].MaxRequests

\* a key that is at its quota in the current window and holds two admissions
\* lying exactly one window apart
C1_Witness ==
    \E k \in Keys :
        /\ Stable(k[2])
        /\ AdmittedIn(k, clock - limits[k[2]].Window, clock) = limits[k[2]].MaxRequests
        /\ \E i, j \in 1..Len(admitted[k]) :
              admitted[k][j] - admitted[k][i] = limits[k[2]].Window

\* a goroutine is between l.mu.Lock() and the deferred l.mu.Unlock()
InCriticalSection(p) == pc[p] \in {"lookup", "filter", "check"}

\* C2: under every interleaving of concurrent Allow calls, at most one
\* goroutine is inside the read-filter-compare-append section, and the calls
\* admitted for a key within the current window never exceed max requests.
C2_NoOvershoot ==
    /\ \A p, q \in Procs : (p # q) => ~(InCriticalSection(p) /\ InCriticalSection(q))
    /\ \A k \in Keys : Stable(k[2]) =>
          AdmittedIn(k, clock - limits[k[2]].Window, clock) <= limits[k[2]].MaxRequests

\* two goroutines call Allow for the same key at its quota: one is about to be
\* rejected inside the critical section while the other waits for the mutex
C2_Witness ==
    \E p, q \in Procs :
        /\ p # q
        /\ pc[p] = "check" /\ pc[q] = "lock" /\ arg[p] = arg[q]
        /\ Stable(arg[p].path)
        /\ Len(validRequests[p]) = limits[arg[p].path].MaxRequests
        /\ AdmittedIn(<<arg[p].ip, arg[p].path>>,
                      clock - limits[arg[p].path].Window, clock)
             = limits[arg[p].path].MaxRequests

\* the admissions of the last call's key made before that call
AdmittedBefore ==
    LET log == admitted[<<lastAllow.ip, lastAllow.path>>]
    IN IF lastAllow.ok THEN SubSeq(log, 1, Len(log) - 1) ELSE log

\* C9: under an unchanged policy (max, window), a call for a key with fewer
\* than max admissions so far returns true, a call with max admissions inside
\* its window returns false, and a call made more than window after every
\* admission returns true again.
C9_Scenario ==
    (lastAllow.limited /\ Stable(lastAllow.path)) =>
        LET lim == limits[lastAllow.path]
            pre == AdmittedBefore
            inWin == {i \in 1..Len(pre) : pre[i] > lastAllow.t - lim.Window}
        IN /\ (Len(pre) < lim.MaxRequests) => lastAllow.ok
           /\ (Cardinality(inWin) >= lim.MaxRequests) => ~lastAllow.ok
           /\ (\A i \in 1..Len(pre) : pre[i] < lastAllow.t - lim.Window) => lastAllow.ok

\* max calls admitted, one rejected, and one admitted again after the window:
\* every path is limited, only this key was ever called, max + 2 calls were
\* made and the last one, later than the window, was admitted
C9_Witness ==
    /\ DOMAIN limits = Paths
    /\ lastAllow.limited /\ lastAllow.ok /\ Stable(lastAllow.path)
    /\ nCalls = limits[lastAllow.path].MaxRequests + 2
    /\ \A k \in Keys : (k # <<lastAllow.ip, lastAllow.path>>) => admitted[k] = <<>>
    /\ Len(admitted[<<lastAllow.ip, lastAllow.path>>]) = limits[lastAllow.path].MaxRequests + 1
    /\ \A i \in 1..Len(AdmittedBefore) :
          AdmittedBefore[i] < lastAllow.t - limits[lastAllow.path].Window

\* C10: the stored history of a key changes only in an Allow call for that
\* very key, and the result of an Allow on a limited path is determined by
\* the policy of the path and the history of its own key.
C10_KeysIndependent ==
    [][ /\ \A k \in Keys :
            (History(k[1], k[2])' # History(k[1], k[2])) =>
                (nCalls' = nCalls + 1 /\ lastAllow'.ip = k[1] /\ lastAllow'.path = k[2])
        /\ (nCalls' = nCalls + 1 /\ lastAllow'.limited) =>
              (lastAllow'.ok <=>
                 Cardinality({i \in 1..Len(History(lastAllow'.ip, lastAllow'.path)) :
                     History(lastAllow'.ip, lastAllow'.path)[i]
                        > clock - limits[lastAllow'.path].Window})
                   < limits[lastAllow'.path].MaxRequests)
      ]_vars

\* ip2 is admitted on a path on which ip1 is at its quota
C10_Witness ==
    /\ lastAllow.ip = "ip2" /\ lastAllow.limited /\ lastAllow.ok
    /\ Stable(lastAllow.path)
    /\ AdmittedIn(<<"ip1", lastAllow.path>>,
                  lastAllow.t - limits[lastAllow.path].Window, lastAllow.t)
         = limits[lastAllow.path].MaxRequests

\* the step is a call of Allow that returns
AllowReturns == nCalls' = nCalls + 1

\* the history stored for a key after the step
HistoryAfter(ip, path) ==
    IF ip \in DOMAIN store' /\ path \in DOMAIN store'[ip] THEN store'[ip][path] ELSE <<>>

\* C11: default-open.  A call of Allow for a resource that has no policy in
\* the limits table at the time of the call returns true, for every identity
\* and after any number of previous calls.
C11_DefaultOpen ==
    [][ (AllowReturns /\ lastAllow'.path \notin DOMAIN limits) => lastAllow'.ok ]_vars

\* the last of three calls was let through on a resource without a policy
\* while another resource has one, and no call was ever counted
C11_Witness ==
    /\ nCalls >= 3
    /\ lastAllow.ok /\ ~lastAllow.limited
    /\ lastAllow.path \notin DOMAIN limits
    /\ DOMAIN limits # {}
    /\ \A k \in Keys : admitted[k] = <<>>

\* the timestamps of a history that lie inside the window ending at now
InWindow(h, window, now) ==
    LET inside(timestamp) == timestamp > now - window
    IN SelectSeq(h, inside)

\* C12: a rejected Allow records nothing.  When the number of in-window
\* timestamps of the key is already >= max requests, Allow returns false and
\* the history stored for the key afterwards is exactly the filtered
\* in-window history, with no timestamp for the rejected call.
C12_RejectedRecordsNothing ==
    [][ (AllowReturns /\ lastAllow'.limited) =>
          LET ip == lastAllow'.ip
              path == lastAllow'.path
              valid == InWindow(History(ip, path), limits[path].Window, clock)
          IN (Len(valid) >= limits[path].MaxRequests) =>
                /\ ~lastAllow'.ok
                /\ HistoryAfter(ip, path) = valid
                /\ admitted' = admitted
      ]_vars

\* a call was rejected for a key at its quota, whose history holds exactly
\* the admissions made before
C12_Witness ==
    /\ lastAllow.limited /\ ~lastAllow.ok
    /\ Stable(lastAllow.path)
    /\ History(lastAllow.ip, lastAllow.path) = admitted[<<lastAllow.ip, lastAllow.path>>]
    /\ Len(History(lastAllow.ip, lastAllow.path)) = limits[lastAllow.path].MaxRequests
    /\ nCalls = limits[lastAllow.path].MaxRequests + 1

\* C13: window invariant with lazy eviction.  Right after an Allow call for a
\* key on a limited resource no timestamp stored for the key is older than
\* now - window, now being the instant the call evaluated the window at; and
\* no other step (Allow for another key, AddLimit, the passing of time)
\* changes the history stored for a key.
C13_LazyEviction ==
    [][ /\ (AllowReturns /\ lastAllow'.limited) =>
              \A i \in 1..Len(HistoryAfter(lastAllow'.ip, lastAllow'.path)) :
                  HistoryAfter(lastAllow'.ip, lastAllow'.path)[i]
                      >= clock - limits[lastAllow'.path].Window
        /\ \A k \in Keys :
              (HistoryAfter(k[1], k[2]) # History(k[1], k[2])) =>
                  (AllowReturns /\ lastAllow'.ip = k[1] /\ lastAllow'.path = k[2])
      ]_vars

\* a key keeps a timestamp older than its window while Allow was called for
\* another key and AddLimit was called twice
C13_Witness ==
    \E k \in Keys :
        /\ k[2] \in DOMAIN limits
        /\ \E i \in 1..Len(History(k[1], k[2])) :
              History(k[1], k[2])[i] < clock - limits[k[2]].Window
        /\ lastAllow.limited
        /\ <<lastAllow.ip, lastAllow.path>> # k
        /\ nAddLimits >= 2

\* C14: AddLimit is an additive merge.  After AddLimit(m) every resource in m
\* has the policy given in m, every resource not in m keeps the policy it
\* had (or none), no resource loses its policy, and AddLimit with an empty
\* map changes nothing.
C14_AdditiveMerge ==
    [][ (nAddLimits' = nAddLimits + 1) =>
          LET m == lastAdded'
          IN /\ \A p \in DOMAIN m : p \in DOMAIN limits' /\ limits'[p] = m[p]
             /\ \A p \in DOMAIN limits \ DOMAIN m :
                   p \in DOMAIN limits' /\ limits'[p] = limits[p]
             /\ DOMAIN limits' = DOMAIN limits \cup DOMAIN m
             /\ (DOMAIN m = {}) => (limits' = limits)
      ]_vars

\* the last AddLimit replaced the policy of login and left register with the
\* different policy it had
C14_Witness ==
    /\ lastAdded # NoLimitList
    /\ DOMAIN lastAdded = {"login"}
    /\ "login" \in policyChanged
    /\ DOMAIN limits = Paths
    /\ limits["login"] = lastAdded["login"]
    /\ limits["register"] # limits["login"]

\* C15: every Allow decides on one consistent snapshot of the policy table.
\* The (max, window) pair a goroutine applies is a whole pair of the table,
\* the one its path has as long as the goroutine is between lookup and
\* return, and no step writes the table while a goroutine is in that section.
C15_ConsistentSnapshot ==
    [][ /\ \A p \in Procs :
              (pc'[p] \in {"filter", "check"}) =>
                  /\ rateLimit'[p] \in RateLimit
                  /\ rateLimit'[p] = limits'[arg'[p].path]
        /\ (limits' # limits) => \A p \in Procs : ~InCriticalSection(p)
      ]_vars

\* a goroutine decides with the policy that replaced an earlier one, after a
\* call was admitted under the earlier one, while the other goroutine waits
\* for the mutex
C15_Witness ==
    \E p, q \in Procs :
        /\ p # q
        /\ pc[p] = "check" /\ pc[q] = "lock"
        /\ arg[p].path \in policyChanged
        /\ rateLimit[p] = limits[arg[p].path]
        /\ admitted[<<arg[p].ip, arg[p].path>>] # <<>>

(***************************************************************************)
(* Properties of the token service                                         *)
(***************************************************************************)
\* Validate has returned at the current instant
Validated == valRes.cause # "none"

\* the instants the claims of a token carry, in clock ticks
NotBeforeOf(tok) == UnmarshalClaims(tok.payload).NotBefore
ExpiresAtOf(tok) == UnmarshalClaims(tok.payload).ExpiresAt

\* the token has three segments, an HMAC algorithm, the key id of a key of
\* the ring and a signature made with that key's material
SignedByRingKey(tok) ==
    /\ tok.segments = 3
    /\ tok.alg \in HMACAlgs
    /\ tok.kid \in DOMAIN gen.keys
    /\ VerifySig(tok, gen.keys[tok.kid])

\* C3: Validate returns an identity only for a well-formed token with an HMAC
\* algorithm, the key id of a key of the ring, a signature made with that
\* key's material and now within [not-before, expires-at]; a token that was
\* not issued (a forged one) yields an error, and every error comes with no
\* identity.
C3_OnlyTrustedTokens ==
    Validated =>
        /\ (valRes.err = "nil") =>
              /\ SignedByRingKey(valRes.token)
              /\ NotBeforeOf(valRes.token) <= clock
              /\ clock <= ExpiresAtOf(valRes.token)
        /\ (~valRes.issued) => (valRes.err # "nil")
        /\ (valRes.err # "nil") => (valRes.user = NilUser)

\* C4: an unexpired token whose key id names any key of the ring and whose
\* signature was made with that key's material is accepted, whichever key is
\* the current one.
C4_AnyRingKeyVerifies ==
    (/\ Validated
     /\ SignedByRingKey(valRes.token)
     /\ NotBeforeOf(valRes.token) <= clock
     /\ clock < ExpiresAtOf(valRes.token)) => (valRes.err = "nil")

OtherwiseValid(tok) ==
    /\ tok.segments = 3
    /\ tok.alg \in HMACAlgs
    /\ tok.kid = gen.currentKey
    /\ VerifySig(tok, KeyOf(gen, gen.currentKey))

\* C6 (as amended): a generated token has not-before = the second of its
\* issuance and expires-at = not-before + duration; an otherwise valid token
\* is rejected exactly when now < not-before or now >= expires-at, and the
\* held token is never accepted again once it was rejected as expired.
C6_Lifecycle ==
    /\ (genRes.err = "nil") =>
          /\ genRes.token.payload.nbf = NewNumericDate(clock)
          /\ ExpiresAtOf(genRes.token) = NotBeforeOf(genRes.token) + gen.tokenDuration
    /\ (Validated /\ OtherwiseValid(valRes.token)) =>
          /\ (valRes.err # "nil") <=>
                (clock < NotBeforeOf(valRes.token) \/ clock >= ExpiresAtOf(valRes.token))
          /\ (valRes.err = "nil" /\ valRes.issued /\ valRes.token = held) => ~expiredSeen

\* C6 (as stated): an otherwise valid token is rejected exactly when
\* now < not-before or now > expires-at.
C6_LifecycleClosed ==
    (Validated /\ OtherwiseValid(valRes.token)) =>
        ((valRes.err # "nil") <=>
            (clock < NotBeforeOf(valRes.token) \/ clock > ExpiresAtOf(valRes.token)))

\* the held token, in order otherwise, is rejected at the very instant expires-at
C6_Witness ==
    /\ Validated /\ valRes.issued /\ valRes.token = held /\ OtherwiseValid(held)
    /\ valRes.cause = "ErrTokenExpired"
    /\ clock = ExpiresAtOf(held)

\* NewJWTGenerator has been called
Constructed == newArg # NoNewArg

\* C16: construction fails when the current key id is not a key of the ring,
\* so every constructed service has its current key in the ring with at
\* least 32 bytes of material, and Generate never signs with missing or
\* empty key material.
C16_CurrentKeyInRing ==
    /\ (Constructed /\ newArg.kid \notin DOMAIN newArg.Keys) =>
          (newErr # "nil" /\ gen = NoGen)
    /\ (gen # NoGen) =>
          /\ gen.currentKey \in DOMAIN gen.keys
          /\ StrLen(KeyOf(gen, gen.currentKey)) >= MinKeyLength
    /\ (genRes.err = "nil") =>
          /\ genRes.token.sig.key # EmptyMaterial
          /\ StrLen(genRes.token.sig.key) >= MinKeyLength

\* C17: NewJWTGenerator returns an error and no service whenever a key of the
\* ring, current or not, has fewer than 32 bytes of material or the duration
\* is not strictly positive; a constructed service holds only keys of at
\* least 32 bytes and a positive duration, and Generate and Validate never
\* report a key or a duration.
C17_FailFast ==
    /\ (/\ Constructed
        /\ \/ \E k \in DOMAIN newArg.Keys : newArg.Keys[k].len < MinKeyLength
           \/ newArg.durationMinutes <= 0) =>
          (newErr \in {"ErrKeyIsTooShort", "ErrDurationMustBePositive"} /\ gen = NoGen)
    /\ (gen # NoGen) =>
          /\ \A k \in DOMAIN gen.keys : StrLen(gen.keys[k]) >= MinKeyLength
          /\ gen.tokenDuration > 0
    /\ genRes.err \notin {"ErrKeyIsTooShort", "ErrDurationMustBePositive"}
    /\ valRes.cause \notin {"ErrKeyIsTooShort", "ErrDurationMustBePositive"}

\* a service that had issued a token is constructed again with a good current
\* key and a second key that is too short, and is refused
C17_Witness ==
    /\ Constructed
    /\ newArg.kid = "key1"
    /\ DOMAIN newArg.Keys = {"key1", "key2"}
    /\ newArg.Keys["key1"].len >= MinKeyLength
    /\ newArg.Keys["key2"].len < MinKeyLength
    /\ newErr = "ErrKeyIsTooShort"
    /\ gen = NoGen
    /\ held # NoToken

\* C18 (as amended): a generated token has expires-at = issued-at + duration
\* and not-before = issued-at, issued-at being the instant of issuance
\* truncated to the whole second, and carries the current key id in its header.
C18_ClaimsTruncated ==
    (genRes.err = "nil") =>
        LET claims == UnmarshalClaims(genRes.token.payload)
        IN /\ claims.ExpiresAt = claims.IssuedAt + gen.tokenDuration
           /\ claims.NotBefore = claims.IssuedAt
           /\ claims.IssuedAt <= clock
           /\ clock < claims.IssuedAt + TicksPerSecond
           /\ claims.IssuedAt % TicksPerSecond = 0
           /\ genRes.token.kid = gen.currentKey

\* C18 (as stated): the same with issued-at equal to the instant of issuance.
C18_ClaimsExact ==
    (genRes.err = "nil") =>
        LET claims == UnmarshalClaims(genRes.token.payload)
        IN /\ claims.ExpiresAt = claims.IssuedAt + gen.tokenDuration
           /\ claims.NotBefore = claims.IssuedAt
           /\ claims.IssuedAt = clock
           /\ genRes.token.kid = gen.currentKey

\* a token generated in the middle of a second by a service whose current
\* key is the second key of its ring
C18_Witness ==
    /\ genRes.err = "nil"
    /\ clock % TicksPerSecond # 0
    /\ UnmarshalClaims(genRes.token.payload).IssuedAt < clock
    /\ gen.currentKey = "key2"
    /\ DOMAIN gen.keys = {"key1", "key2"}

\* C19: Validate reports the cause of a rejection by step, in the order
\* algorithm, key id, signature, time bounds: a token whose key id is not a
\* key of the ring fails with the unknown-key error, a token with the key id
\* of a ring key and a signature not made with that key fails with the
\* invalid-signature error, and the earliest failing check is the one reported.
C19_CauseByStep ==
    (Validated /\ valRes.token.segments = 3) =>
        LET tok == valRes.token
        IN IF tok.alg \notin HMACAlgs
              THEN valRes.cause = "ErrUnexpectedSigningMethod"
           ELSE IF tok.kid \notin DOMAIN gen.keys
              THEN valRes.cause = "ErrUnexpectedKeyID"
           ELSE IF ~VerifySig(tok, gen.keys[tok.kid])
              THEN valRes.cause = "ErrTokenSignatureInvalid"
           ELSE IF clock >= ExpiresAtOf(tok)
              THEN valRes.cause = "ErrTokenExpired"
           ELSE IF clock < NotBeforeOf(tok)
              THEN valRes.cause = "ErrTokenNotValidYet"
           ELSE valRes.cause = "nil"

\* the causes by step for the services whose current key is in the ring and
\* the tokens that do not name another key of the ring
CauseByStepCurrentKey ==
    (/\ Validated
     /\ valRes.token.segments = 3
     /\ gen.currentKey \in DOMAIN gen.keys
     /\ valRes.token.kid \notin DOMAIN gen.keys \ {gen.currentKey}) => C19_CauseByStep

\* C20: every failing Validate, whatever its cause, returns a nil user and an
\* error that matches domain.ErrInvalidToken.
C20_GenericError ==
    (Validated /\ valRes.cause # "nil") =>
        /\ valRes.cause \in {"ErrTokenMalformed", "ErrUnexpectedSigningMethod",
                             "ErrUnexpectedKeyID", "ErrTokenSignatureInvalid",
                             "ErrTokenExpired", "ErrTokenNotValidYet"}
        /\ valRes.user = NilUser
        /\ valRes.err = "ErrInvalidToken"

\* a token of the service with its expiry moved is rejected for its signature
\* and the caller gets the generic error
C20_Witness ==
    /\ Validated
    /\ valRes.cause = "ErrTokenSignatureInvalid"
    /\ held # NoToken
    /\ valRes.token.payload.exp > held.payload.exp
    /\ valRes.err = "ErrInvalidToken"
    /\ valRes.user = NilUser

(***************************************************************************)
(* Properties of the password hasher                                       *)
(***************************************************************************)
\* the last Compare was given the hash the last Hash returned, and a secret
\* that is not longer than 72 bytes
ComparedWithHash ==
    /\ hashRes.err = "nil"
    /\ cmpRes.err # "none"
    /\ cmpRes.hashedPassword = hashRes.hash
    /\ ByteLen(cmpRes.plainPassword) <= MaxPasswordLength

\* C7: password round trip.  For secrets s, s2 of at most 72 bytes,
\* Compare(Hash(s), s) returns nil, and Compare(Hash(s), s2) with s # s2
\* returns domain.ErrInvalidCredentials.
C7_RoundTrip ==
    ComparedWithHash =>
        IF cmpRes.plainPassword = hashRes.password
        THEN cmpRes.err = "nil"
        ELSE cmpRes.err = "ErrInvalidCredentials"

\* the half of the round trip about one secret: Compare(Hash(s), s) returns nil
RoundTripSameSecret ==
    (ComparedWithHash /\ cmpRes.plainPassword = hashRes.password) => cmpRes.err = "nil"

\* the other half for secrets whose expanded Blowfish keys differ
RoundTripOtherKey ==
    (ComparedWithHash /\ ExpandKey(cmpRes.plainPassword) # ExpandKey(hashRes.password))
        => cmpRes.err = "ErrInvalidCredentials"

(***************************************************************************)
(* Properties of Login                                                     *)
(***************************************************************************)
\* C8: Login does not tell an unknown identity from a wrong password.  A run
\* where GetByEmail reports user-not-found and a run where the user exists
\* but Compare fails return the same triple (empty token, nil user,
\* domain.ErrInvalidCredentials), each after exactly one Compare call.
C8_Indistinguishable ==
    \A o1 \in observed.notFound, o2 \in observed.wrongPassword :
        /\ o1 = o2
        /\ o1.token = NoToken
        /\ o1.user = NilUser
        /\ o1.err = "ErrInvalidCredentials"
        /\ o1.compares = 1
        /\ o2.compares = 1

C8_Witness ==
    /\ observed.notFound # {}
    /\ observed.wrongPassword # {}
    /\ loginRes.lookup = "ErrUserNotFound"
    /\ Len(loginRes.compares) = 1

\* C21: Generate called with a nil user returns the empty token and
\* ErrUserCanNotBeNil, and signs nothing: the token the client holds is the
\* one it held before.
C21_NilUser ==
    [][(genRes' # genRes /\ genRes'.err # "none" /\ genRes'.user = NilUser) =>
          /\ genRes'.token = NoToken
          /\ genRes'.err = "ErrUserCanNotBeNil"
          /\ held' = held]_vars

\* Generate has refused a nil user after it had signed a token for a user
C21_Witness ==
    /\ genRes.user = NilUser /\ genRes.err = "ErrUserCanNotBeNil"
    /\ genRes.token = NoToken /\ held # NoToken

\* the key ring validated by the constructor call that made the service
ConstructedRing == [k \in DOMAIN newArg.Keys |-> TrimSpace(newArg.Keys[k])]

\* C22: the key ring and the current key id of a constructed service are
\* those its constructor validated, whatever the caller does afterwards with
\* the map it passed, and every token Generate returns is signed with the
\* validated material of the current key.
C22_RingReadOnly ==
    (gen # NoGen) =>
        /\ gen.keys = ConstructedRing
        /\ gen.currentKey = newArg.kid
        /\ (genRes.err = "nil") =>
              VerifySig(genRes.token,
                        IF newArg.kid \in DOMAIN newArg.Keys
                        THEN ConstructedRing[newArg.kid] ELSE EmptyMaterial)
\* Hash has returned for a password
Hashed == hashRes.err # "none"
\* Compare has returned for a password
Compared == cmpRes.err # "none"

\* C23: Hash and Compare reject every secret longer than 72 bytes with
\* domain.ErrInvalidCredentials, the error Compare returns for a secret that
\* does not match the hash; a secret of exactly 72 bytes is not rejected for
\* its length: Hash does not answer ErrInvalidCredentials for it and Compare
\* accepts it against its own hash.
C23_SameErrorForTooLong ==
    /\ (Hashed /\ ByteLen(hashRes.password) > MaxPasswordLength) =>
          hashRes.err = "ErrInvalidCredentials"
    /\ (Compared /\ ByteLen(cmpRes.plainPassword) > MaxPasswordLength) =>
          cmpRes.err = "ErrInvalidCredentials"
    /\ (/\ Compared
        /\ ByteLen(cmpRes.plainPassword) <= MaxPasswordLength
        /\ cmpRes.hashedPassword.enc.ok
        /\ CompareHashAndPassword(cmpRes.hashedPassword, cmpRes.plainPassword)
              = "ErrMismatchedHashAndPassword") =>
          cmpRes.err = "ErrInvalidCredentials"
    /\ (Hashed /\ ByteLen(hashRes.password) = MaxPasswordLength) =>
          hashRes.err # "ErrInvalidCredentials"
    /\ (/\ ComparedWithHash
        /\ ByteLen(cmpRes.plainPassword) = MaxPasswordLength
        /\ cmpRes.plainPassword = hashRes.password) =>
          cmpRes.err = "nil"

\* a 72-byte password was hashed, and Compare has rejected the password one
\* byte longer against that hash
C23_Witness ==
    /\ hashRes.password = Longest /\ hashRes.err = "nil"
    /\ cmpRes.hashedPassword = hashRes.hash
    /\ cmpRes.plainPassword = TooLong
    /\ cmpRes.err = "ErrInvalidCredentials"

\* C24 as stated: for every secret longer than 72 bytes Hash returns a
\* CredentialTooLong error and an empty hash without calling bcrypt.
C24_CredentialTooLong ==
    (Hashed /\ ByteLen(hashRes.password) > MaxPasswordLength) =>
        /\ hashRes.err = "CredentialTooLong"
        /\ hashRes.hash = EmptyString
        /\ ~hashRes.bcrypt

\* C24: for every secret longer than 72 bytes Hash returns
\* domain.ErrInvalidCredentials, the generic invalid-credential error, and an
\* empty hash, and bcrypt.GenerateFromPassword is not called.
C24_FailsClosed ==
    (Hashed /\ ByteLen(hashRes.password) > MaxPasswordLength) =>
        /\ hashRes.err = "ErrInvalidCredentials"
        /\ hashRes.hash = EmptyString
        /\ ~hashRes.bcrypt

\* Hash has refused a password of 73 bytes
C24_Witness ==
    /\ Hashed /\ hashRes.password = TooLong
    /\ hashRes.hash = EmptyString /\ ~hashRes.bcrypt
\* Login has returned
LoggedIn == loginRes.err # "none"

\* bcrypt.CompareHashAndPassword gets as far as hashing the password: the
\* password passes the length check of Compare and the hash is well formed
BcryptRan(c) ==
    /\ ByteLen(c.plainPassword) <= MaxPasswordLength
    /\ c.hashedPassword.enc.ok

\* C25: when the lookup of Login fails, the one Compare call made has a
\* well-formed bcrypt hash in the hash position and a candidate secret in
\* the secret position, so bcrypt hashes the secret as the comparison of an
\* existing user's password does.
C25_DummyRunsBcrypt ==
    (LoggedIn /\ loginRes.lookup # "nil") =>
        /\ Len(loginRes.compares) = 1
        /\ loginRes.compares[1].hashedPassword.enc.ok
        /\ ~loginRes.compares[1].plainPassword.enc.ok
        /\ BcryptRan(loginRes.compares[1])

\* the comparison of an existing user's password runs bcrypt unless the
\* password is over-long
RealComparisonRunsBcrypt ==
    (/\ LoggedIn /\ loginRes.lookup = "nil"
     /\ ByteLen(loginArg.password) <= MaxPasswordLength) =>
        BcryptRan(loginRes.compares[1])

\* C29: Login returns a token, and calls Generate, only when GetByEmail
\* returned a user and Compare of that user's stored hash with the supplied
\* password returned nil; the user returned is that user; every error comes
\* with the empty token and a nil user.
C29_TokenOnlyAfterCompare ==
    LoggedIn =>
        /\ (loginRes.token # NoToken \/ loginRes.generated \/ loginRes.err = "nil") =>
              /\ loginRes.lookup = "nil"
              /\ \E u \in repo :
                    /\ u.Email = TrimSpace(loginArg.email)
                    /\ loginRes.compares =
                          << [hashedPassword |-> u.HashedPassword,
                              plainPassword |-> loginArg.password, err |-> "nil"] >>
                    /\ loginRes.err = "nil" => loginRes.user = u
        /\ (loginRes.err # "nil") =>
              (loginRes.token = NoToken /\ loginRes.user = NilUser)
        /\ (loginRes.err = "nil") => loginRes.token # NoToken

\* a Login has returned a token after a successful comparison
C29_Witness ==
    /\ LoggedIn /\ loginRes.err = "nil" /\ loginRes.token # NoToken
    /\ loginRes.generated /\ loginRes.compares[1].err = "nil"
\* a history in non-decreasing order of time
NonDecreasing(h) == \A i \in 1..Len(h), j \in 1..Len(h) : i < j => h[i] <= h[j]

\* C26: bounded history.  While the policy of a resource has not been
\* replaced, the history stored for each key of the resource holds at most
\* MaxRequests timestamps, in non-decreasing order, however many calls were
\* made for the key.
C26_BoundedHistory ==
    \A k \in Keys :
        Stable(k[2]) =>
            /\ Len(History(k[1], k[2])) <= limits[k[2]].MaxRequests
            /\ NonDecreasing(History(k[1], k[2]))

\* a key was admitted more often than its policy allows in one window, and
\* its history is as long as the policy allows
C26_Witness ==
    \E k \in Keys :
        /\ Stable(k[2])
        /\ Len(admitted[k]) > limits[k[2]].MaxRequests
        /\ Len(History(k[1], k[2])) = limits[k[2]].MaxRequests
        /\ lastAllow.limited /\ <<lastAllow.ip, lastAllow.path>> = k

\* C27: AddLimit leaves every stored history as it is and Allow leaves the
\* policy table as it is; an Allow on a resource whose policy was replaced
\* is decided by the stored history under the new policy: it is rejected
\* exactly when the timestamps inside the new window are already as many as
\* the new MaxRequests.
C27_PolicyAndStoreApart ==
    [][ /\ (nAddLimits' = nAddLimits + 1) => (store' = store /\ admitted' = admitted)
        /\ AllowReturns => (limits' = limits /\ policyChanged' = policyChanged)
        /\ (AllowReturns /\ lastAllow'.limited /\ lastAllow'.path \in policyChanged) =>
              LET ip == lastAllow'.ip
                  path == lastAllow'.path
                  valid == InWindow(History(ip, path), limits[path].Window, clock)
              IN lastAllow'.ok <=> (Len(valid) < limits[path].MaxRequests)
      ]_vars

\* a call was rejected under a replaced policy while the history kept from
\* the old policy is longer than the new policy allows
C27_Witness ==
    /\ lastAllow.limited /\ ~lastAllow.ok
    /\ lastAllow.path \in policyChanged
    /\ Len(History(lastAllow.ip, lastAllow.path)) > limits[lastAllow.path].MaxRequests
\* the Register calls made with a trimmed email
CallsWith(e) == {p \in Registrants : reg[p].pc # "idle" /\ reg[p].email = e}
\* the calls that returned a created user
Winners(e) == {p \in CallsWith(e) : reg[p].pc = "done" /\ reg[p].err = NoError}
\* the users of the store with an email
UsersWith(e) == {u \in repo : u.Email = e}

C30_ServerStoppedFirst ==
    /\ (pool # "open") => server \in {"closed", "failed"}
    /\ \A r \in Requests : handlers[r] # "closedPool"
====
